---- MODULE Spec2Model ----
(***************************************************************************)
(* The local/remote conflict-resolution merge of the quote generator.      *)
(*                                                                         *)
(*   resolveConflicts      the Map-based variant    (src/unnamed/part_001) *)
(*   resolveConflictsSet   the Set/object variant   (src/unnamed/part_000) *)
(*                                                                         *)
(* A quote is a record [text, category].  A text is the sequence of the    *)
(* UTF-16 code units of the JavaScript string, so that toLowerCase is a    *)
(* computation on the text: "A" is <<65>>, "a" is <<97>>, "1" is <<49>>    *)
(* and the empty string is << >>.                                          *)
(*                                                                         *)
(* Spec and SpecMalformed apply the two merges to drawn inputs.  SpecApp   *)
(* is the page around them: the quotes array, localStorage, the syncs in   *)
(* flight and the handlers of the three scripts (variant).                 *)
(***************************************************************************)
EXTENDS Integers, Sequences, FiniteSets, TLC

VARIABLES localQuotes, serverQuotes, pc, threw,
          merged, mergedSet, again, againSet, swapped, swappedSet

\* The page: which script runs, the quotes array, localStorage under
\* STORAGE_KEY and under CATEGORY_KEY, the syncQuotes calls awaiting their
\* fetch, the last handler that ran (whether it took effect, whether it ran
\* to its end, the server quotes a sync got), the keys addQuote accepted,
\* and the number of additions made by hand or by import.
VARIABLES variant, quotes, storage, selectedCategory, inFlight,
          last, accepted, nAdded

mergeVars == <<localQuotes, serverQuotes, pc, threw,
               merged, mergedSet, again, againSet, swapped, swappedSet>>

appVars == <<variant, quotes, storage, selectedCategory, inFlight,
             last, accepted, nAdded>>

vars == <<mergeVars, appVars>>

\* Longest local and longest server sequence drawn as input.
MaxLocal == 2
MaxServer == 2

\* ---------------------------------------------------------------- texts
TextA == <<65>>
TextLowerA == <<97>>
TextB == <<66>>
TextOne == <<49>>
TextTwo == <<50>>
EmptyText == << >>
\* A text field that is not a string (undefined, a number, null): no
\* sequence of code units has a negative element.
NonString == <<-1>>

Texts == {TextA, TextLowerA, TextB, TextOne, TextTwo}
Categories == {"X", "Y"}

\* Well-formed quotes: text and category are non-empty strings.  The two
\* texts that share a key come in both categories.
Quotes ==
    {q \in [text : Texts, category : Categories] :
        q.category = "Y" => q.text \in {TextA, TextLowerA}}

\* Records the data model excludes: an empty text, a text that is no string.
Malformed == [text : {EmptyText, NonString}, category : {"X"}]

MalformedInputs == Malformed \cup
    {[text |-> TextA, category |-> "X"], [text |-> TextLowerA, category |-> "Y"]}

SeqsUpTo(S, n) == UNION {[1..k -> S] : k \in 0..n}

\* ------------------------------------------------- String.prototype.toLowerCase
toLowerCase(s) ==
    [i \in 1..Len(s) |-> IF s[i] \in 65..90 THEN s[i] + 32 ELSE s[i]]

\* q.text.toLowerCase() raises a TypeError when q.text is not a string.
Throws(qs) == \E i \in 1..Len(qs) : qs[i].text = NonString

\* ------------------------------------------------------------ Map (part_001)
\* A Map is the sequence of its entries in insertion order.
MapSetKeepFirst(m, k, v) ==
    IF \E i \in 1..Len(m) : m[i].key = k
    THEN m
    ELSE Append(m, [key |-> k, value |-> v])

MapSetAppend(m, k, v) == Append(m, [key |-> k, value |-> v])

MapSetMoveToEnd(m, k, v) ==
    Append(SelectSeq(m, LAMBDA e : e.key # k), [key |-> k, value |-> v])

\* Map.prototype.set: an existing key keeps its position and takes the new
\* value, a new key is appended.
MapSet(m, k, v) ==
    IF \E i \in 1..Len(m) : m[i].key = k
    THEN [i \in 1..Len(m) |->
             IF m[i].key = k THEN [key |-> k, value |-> v] ELSE m[i]]
    ELSE Append(m, [key |-> k, value |-> v])

RECURSIVE SetEach(_, _)
\* qs.forEach(q => lowerLocal.set(q.text.toLowerCase(), q))
SetEach(m, qs) ==
    IF qs = << >> THEN m
    ELSE SetEach(MapSet(m, toLowerCase(Head(qs).text), Head(qs)), Tail(qs))

MapValuesReversed(m) == [i \in 1..Len(m) |-> m[Len(m) + 1 - i].value]

\* Array.from(lowerLocal.values()): the values in insertion order of the keys.
MapValues(m) == [i \in 1..Len(m) |-> m[i].value]

resolveConflicts(l, s) == MapValues(SetEach(SetEach(<< >>, l), s))

\* ------------------------------------------------- Set and object (part_000)
localTexts(l) == {toLowerCase(l[i].text) : i \in 1..Len(l)}

newServerQuotesInverted(l, s) ==
    SelectSeq(s, LAMBDA q : toLowerCase(q.text) \in localTexts(l))

\* serverQuotes.filter(q => !localTexts.has(q.text.toLowerCase()))
newServerQuotes(l, s) ==
    SelectSeq(s, LAMBDA q : toLowerCase(q.text) \notin localTexts(l))

ObjectSetAppend(o, k, v) == Append(o, [key |-> k, value |-> v])

ObjectSetKeepFirst(o, k, v) ==
    IF \E i \in 1..Len(o) : o[i].key = k
    THEN o
    ELSE Append(o, [key |-> k, value |-> v])

\* uniqueByText[k] = v: an object is the sequence of its own properties in
\* creation order; assigning an existing property keeps its position.
ObjectSet(o, k, v) ==
    IF \E i \in 1..Len(o) : o[i].key = k
    THEN [i \in 1..Len(o) |->
             IF o[i].key = k THEN [key |-> k, value |-> v] ELSE o[i]]
    ELSE Append(o, [key |-> k, value |-> v])

RECURSIVE AssignEach(_, _)
\* merged.forEach(q => { uniqueByText[q.text.toLowerCase()] = q; })
AssignEach(o, qs) ==
    IF qs = << >> THEN o
    ELSE AssignEach(ObjectSet(o, toLowerCase(Head(qs).text), Head(qs)), Tail(qs))

\* The code units of "4294967294", the largest array index (2^32 - 2).
MaxArrayIndex == <<52, 50, 57, 52, 57, 54, 55, 50, 57, 52>>

\* a < b for two digit strings of the same length.
DigitsLess(a, b) ==
    \E i \in 1..Len(a) :
        /\ a[i] < b[i]
        /\ \A j \in 1..(i - 1) : a[j] = b[j]

\* a < b as numbers, for two canonical decimal strings.
NumericLess(a, b) ==
    \/ Len(a) < Len(b)
    \/ Len(a) = Len(b) /\ DigitsLess(a, b)

\* A property key is an array index when it is the canonical decimal form of
\* an integer in 0 .. 2^32 - 2.
IsArrayIndex(k) ==
    /\ Len(k) >= 1
    /\ \A i \in 1..Len(k) : k[i] \in 48..57
    /\ (Len(k) > 1 => k[1] # 48)
    /\ (k = MaxArrayIndex \/ NumericLess(k, MaxArrayIndex))

\* Object.values: array-index keys first, in ascending numeric order, then
\* the string keys in creation order.
ObjectValues(o) ==
    LET idx == SortSeq(SelectSeq(o, LAMBDA e : IsArrayIndex(e.key)),
                       LAMBDA a, b : NumericLess(a.key, b.key))
        str == SelectSeq(o, LAMBDA e : ~IsArrayIndex(e.key))
        all == idx \o str
    IN  [i \in 1..Len(all) |-> all[i].value]

resolveConflictsSet(l, s) ==
    ObjectValues(AssignEach(<< >>, l \o newServerQuotes(l, s)))

\* ------------------------------------------------------------------ actions
\* Nothing has run.
NoOp == [op |-> "none", ok |-> FALSE, done |-> FALSE, repeat |-> FALSE,
         server |-> << >>]

AbsentItem == [kind |-> "absent", items |-> << >>]

InitWith(L, S) ==
    /\ variant = "none"
    /\ quotes = << >>
    /\ storage = AbsentItem
    /\ selectedCategory = << >>
    /\ inFlight = 0
    /\ last = NoOp
    /\ accepted = {}
    /\ nAdded = 0
    /\ localQuotes \in L
    /\ serverQuotes \in S
    /\ pc = "input"
    /\ threw = FALSE
    /\ merged = << >>
    /\ mergedSet = << >>
    /\ again = << >>
    /\ againSet = << >>
    /\ swapped = << >>
    /\ swappedSet = << >>

Init == InitWith(SeqsUpTo(Quotes, MaxLocal), SeqsUpTo(Quotes, MaxServer))

InitMalformed ==
    InitWith(SeqsUpTo(MalformedInputs, MaxLocal), SeqsUpTo(MalformedInputs, MaxServer))

\* merged = resolveConflicts(localQuotes, serverQuotes), in both variants.
Merge ==
    /\ pc = "input"
    /\ IF Throws(localQuotes) \/ Throws(serverQuotes)
       THEN /\ threw' = TRUE
            /\ pc' = "threw"
            /\ UNCHANGED <<merged, mergedSet>>
       ELSE /\ merged' = resolveConflicts(localQuotes, serverQuotes)
            /\ mergedSet' = resolveConflictsSet(localQuotes, serverQuotes)
            /\ pc' = "merged"
            /\ UNCHANGED threw
    /\ UNCHANGED <<localQuotes, serverQuotes, again, againSet, swapped, swappedSet>>
    /\ UNCHANGED appVars

\* The merged array is merged again with an empty server list.
MergeAgain ==
    /\ pc = "merged"
    /\ again' = resolveConflicts(merged, << >>)
    /\ againSet' = resolveConflictsSet(mergedSet, << >>)
    /\ pc' = "again"
    /\ UNCHANGED <<localQuotes, serverQuotes, threw, merged, mergedSet, swapped, swappedSet>>
    /\ UNCHANGED appVars

\* The same two arrays are merged with the arguments exchanged.
MergeSwapped ==
    /\ pc = "merged"
    /\ swapped' = resolveConflicts(serverQuotes, localQuotes)
    /\ swappedSet' = resolveConflictsSet(serverQuotes, localQuotes)
    /\ pc' = "swapped"
    /\ UNCHANGED <<localQuotes, serverQuotes, threw, merged, mergedSet, again, againSet>>
    /\ UNCHANGED appVars

Next == Merge \/ MergeAgain \/ MergeSwapped

Spec == Init /\ [][Next]_vars

SpecMalformed == InitMalformed /\ [][Next]_vars


\* ==================================================================== page
\* ------------------------------------------------------------------- texts
WhiteSpace == {9, 10, 11, 12, 13, 32}

RECURSIVE trimStart(_)
trimStart(s) ==
    IF s # << >> /\ Head(s) \in WhiteSpace THEN trimStart(Tail(s)) ELSE s

RECURSIVE trimEnd(_)
trimEnd(s) ==
    IF s # << >> /\ s[Len(s)] \in WhiteSpace
    THEN trimEnd(SubSeq(s, 1, Len(s) - 1)) ELSE s

trimStartOnly(s) == trimStart(s)

\* String.prototype.trim
trim(s) == trimEnd(trimStart(s))

CatX == <<88>>
CatAll == <<65, 108, 108>>

\* "The best way to get started is to quit talking and begin doing."
TextMotivation ==
    <<84, 104, 101, 32, 98, 101, 115, 116, 32, 119, 97, 121, 32, 116, 111,
      32, 103, 101, 116, 32, 115, 116, 97, 114, 116, 101, 100, 32, 105,
      115, 32, 116, 111, 32, 113, 117, 105, 116, 32, 116, 97, 108, 107,
      105, 110, 103, 32, 97, 110, 100, 32, 98, 101, 103, 105, 110, 32, 100,
      111, 105, 110, 103, 46>>

\* "Motivation"
CatMotivation ==
    <<77, 111, 116, 105, 118, 97, 116, 105, 111, 110>>

\* "Life is what happens when you're busy making other plans."
TextLife ==
    <<76, 105, 102, 101, 32, 105, 115, 32, 119, 104, 97, 116, 32, 104, 97,
      112, 112, 101, 110, 115, 32, 119, 104, 101, 110, 32, 121, 111, 117,
      8217, 114, 101, 32, 98, 117, 115, 121, 32, 109, 97, 107, 105, 110,
      103, 32, 111, 116, 104, 101, 114, 32, 112, 108, 97, 110, 115, 46>>

\* "Life"
CatLife ==
    <<76, 105, 102, 101>>

\* "Success is not in what you have, but who you are."
TextSuccess ==
    <<83, 117, 99, 99, 101, 115, 115, 32, 105, 115, 32, 110, 111, 116, 32,
      105, 110, 32, 119, 104, 97, 116, 32, 121, 111, 117, 32, 104, 97, 118,
      101, 44, 32, 98, 117, 116, 32, 119, 104, 111, 32, 121, 111, 117, 32,
      97, 114, 101, 46>>

\* "Success"
CatSuccess ==
    <<83, 117, 99, 99, 101, 115, 115>>

\* "Faith is taking the first step even when you don't see the whole staircase."
TextFaith ==
    <<70, 97, 105, 116, 104, 32, 105, 115, 32, 116, 97, 107, 105, 110, 103,
      32, 116, 104, 101, 32, 102, 105, 114, 115, 116, 32, 115, 116, 101,
      112, 32, 101, 118, 101, 110, 32, 119, 104, 101, 110, 32, 121, 111,
      117, 32, 100, 111, 110, 8217, 116, 32, 115, 101, 101, 32, 116, 104,
      101, 32, 119, 104, 111, 108, 101, 32, 115, 116, 97, 105, 114, 99, 97,
      115, 101, 46>>

\* "Faith"
CatFaith ==
    <<70, 97, 105, 116, 104>>

\* "In the middle of every difficulty lies opportunity."
TextInspiration ==
    <<73, 110, 32, 116, 104, 101, 32, 109, 105, 100, 100, 108, 101, 32,
      111, 102, 32, 101, 118, 101, 114, 121, 32, 100, 105, 102, 102, 105,
      99, 117, 108, 116, 121, 32, 108, 105, 101, 115, 32, 111, 112, 112,
      111, 114, 116, 117, 110, 105, 116, 121, 46>>

\* "Inspiration"
CatInspiration ==
    <<73, 110, 115, 112, 105, 114, 97, 116, 105, 111, 110>>

\* "Server"
CatServer ==
    <<83, 101, 114, 118, 101, 114>>


Quote(t, c) == [text |-> t, category |-> c]

\* The quotes loadQuotes falls back to in part_000 and part_001.
initialQuotes ==
    <<Quote(TextMotivation, CatMotivation), Quote(TextLife, CatLife),
      Quote(TextSuccess, CatSuccess)>>

\* The quotes loadQuotes falls back to in script.js.
defaultQuotes ==
    <<Quote(TextMotivation, CatMotivation), Quote(TextFaith, CatFaith),
      Quote(TextInspiration, CatInspiration)>>

\* -------------------------------------------------------------------- JSON
\* A localStorage item or a file: absent (getItem gives null), text that is
\* not JSON, JSON that is not an array, or the JSON text of an array, whose
\* items are written as <<text, category>> pairs.
InvalidItem == [kind |-> "invalid", items |-> << >>]
ObjectItem == [kind |-> "object", items |-> << >>]

\* JSON.stringify of an array of quotes.
stringify(qs) ==
    [kind |-> "array",
     items |-> [i \in 1..Len(qs) |-> <<qs[i].text, qs[i].category>>]]

\* JSON.parse of the JSON text of an array.
parse(item) ==
    [i \in 1..Len(item.items) |->
        [text |-> item.items[i][1], category |-> item.items[i][2]]]

parseOrEmptyMissed(item) == << >>

\* JSON.parse(localStorage.getItem(STORAGE_KEY)) || []
parseOrEmpty(item) == IF item.kind = "array" THEN parse(item) ELSE << >>

\* typeof q.text === "string" && typeof q.category === "string"
IsValid(q) == q.text # NonString /\ q.category # NonString

\* --------------------------------------------------------------- loadQuotes
\* The array loadQuotes leaves in quotes.
loadedQuotes(v, item) ==
    CASE v = "part_000" ->
            IF item.kind = "absent" THEN initialQuotes ELSE parse(item)
      [] v = "part_001" ->
            IF item.kind = "array" THEN parse(item) ELSE initialQuotes
      [] OTHER ->
            IF item.kind = "array"
                  /\ SelectSeq(parse(item), IsValid) # << >>
            THEN SelectSeq(parse(item), IsValid)
            ELSE defaultQuotes

loadSavesWhenAbsent(v, item) == item.kind = "absent"

\* Whether loadQuotes calls saveQuotes.
loadSaves(v, item) ==
    CASE v = "part_000" -> item.kind = "absent"
      [] v = "part_001" -> item.kind # "array"
      [] OTHER -> item.kind = "absent"

\* The item under STORAGE_KEY when loadQuotes returns.
loadedStorage(v, item) ==
    IF loadSaves(v, item) THEN stringify(loadedQuotes(v, item)) ELSE item


\* ------------------------------------------------------------------ bounds
\* Records added by hand or by import in one run, and syncQuotes calls
\* awaiting their fetch at once.
MaxAdded == 2
MaxInFlight == 2

\* ------------------------------------------------------------------ inputs
\* What the user types as text and category: " A" and "X ", "1" and "X ",
\* " " and "X ", " A" and "".
Typed ==
    {<<<<32, 65>>, <<88, 32>>>>, <<<<49>>, <<88, 32>>>>,
     <<<<32>>, <<88, 32>>>>, <<<<32, 65>>, << >>>>}

\* The titles of the posts in a server response: "a"; "B" and "a".
Data == {<<TextLowerA>>, <<TextB, TextLowerA>>}

\* The records of an imported file: "A||"/"X", "A"/"||X", and a record
\* whose text is not a string.
ItemBarsX == <<<<65, 124, 124>>, CatX>>
ItemABars == <<TextA, <<124, 124, 88>>>>
ItemNoText == <<NonString, CatX>>

\* Imported files: text that is not JSON, JSON that is not an array, and
\* arrays of records.
Files ==
    {InvalidItem, ObjectItem}
        \cup {[kind |-> "array", items |-> f] :
                 f \in {<<ItemNoText>>, <<ItemNoText, ItemABars>>,
                        <<ItemBarsX, ItemABars>>}}

\* What localStorage holds under STORAGE_KEY when the page loads: nothing,
\* or text that is not JSON.  part_000 parses the item unguarded and its
\* init raises on such text, so there the item is absent.
PriorStorage(v) ==
    {AbsentItem} \cup (IF v = "part_000" THEN {} ELSE {InvalidItem})

Variants == {"part_000", "part_001", "script"}

HasSync(v) == v \in {"part_000", "part_001"}

\* ------------------------------------------------------------------- init
InitApp ==
    /\ localQuotes = << >>
    /\ serverQuotes = << >>
    /\ pc = "page"
    /\ threw = FALSE
    /\ merged = << >>
    /\ mergedSet = << >>
    /\ again = << >>
    /\ againSet = << >>
    /\ swapped = << >>
    /\ swappedSet = << >>
    /\ variant \in Variants
    /\ \E item \in PriorStorage(variant) :
          /\ quotes = loadedQuotes(variant, item)
          /\ storage = loadedStorage(variant, item)
    /\ selectedCategory = << >>
    \* init ends with startPeriodicSync, which calls syncQuotes at once
    /\ inFlight = IF HasSync(variant) THEN 1 ELSE 0
    /\ last = [NoOp EXCEPT !.op = "loadQuotes", !.done = TRUE]
    /\ accepted = {}
    /\ nAdded = 0

\* ---------------------------------------------------------------- addQuote
addQuoteAccepts(rawText, rawCategory) ==
    trim(rawText) # << >> /\ trim(rawCategory) # << >>

pushed(qs, rawText, rawCategory) ==
    Append(qs, Quote(trim(rawText), trim(rawCategory)))

addQuote(rawText, rawCategory) ==
    /\ pc = "page"
    /\ last' = [NoOp EXCEPT !.op = "addQuote", !.done = TRUE,
                            !.ok = addQuoteAccepts(rawText, rawCategory)]
    /\ IF addQuoteAccepts(rawText, rawCategory)
       THEN /\ nAdded < MaxAdded
            /\ quotes' = pushed(quotes, rawText, rawCategory)
            /\ storage' = stringify(quotes')
            /\ accepted' = accepted \cup {toLowerCase(trim(rawText))}
            /\ nAdded' = nAdded + 1
       ELSE UNCHANGED <<quotes, storage, accepted, nAdded>>
    /\ UNCHANGED <<variant, selectedCategory, inFlight, mergeVars>>

AddQuote == \E in \in Typed : addQuote(in[1], in[2])

\* ----------------------------------------------------------- filterQuote
\* The options of the category select: "All" and the categories in quotes.
Options(qs) ==
    {CatAll} \cup {qs[i].category : i \in {j \in 1..Len(qs) : qs[j].category # << >>}}

\* The options the user picks.
Picks == {CatAll}

\* part_000 and part_001 only: script.js does not store the selection.
filterQuote(category) ==
    /\ pc = "page"
    /\ HasSync(variant)
    /\ selectedCategory' = category
    /\ last' = [NoOp EXCEPT !.op = "filterQuote", !.done = TRUE]
    /\ UNCHANGED <<variant, quotes, storage, inFlight, accepted, nAdded, mergeVars>>

FilterQuote == \E c \in Picks \cap Options(quotes) : filterQuote(c)


\* -------------------------------------------------------------- syncQuotes
\* data.slice(0, 6) in part_001, data.slice(0, 5) in part_000.
SliceEnd001 == 6
SliceEnd000 == 5

SliceEnd(v) == IF v = "part_000" THEN SliceEnd000 ELSE SliceEnd001

Min(a, b) == IF a < b THEN a ELSE b

\* fetchQuotesFromServer, given the titles of the posts in the response:
\* the first posts become quotes of category "Server".
fetched(v, data) ==
    [i \in 1..Min(Len(data), SliceEnd(v)) |-> Quote(data[i], CatServer)]

\* What fetchQuotesFromServer may return: [] when the fetch failed.
Responses(v) ==
    {[ok |-> FALSE, quotes |-> << >>]}
        \cup {[ok |-> TRUE, quotes |-> fetched(v, d)] : d \in Data}

resolveConflictsOfServerOnly(v, l, sq) == sq

resolveConflictsOf(v, l, sq) ==
    IF v = "part_000" THEN resolveConflictsSet(l, sq) ELSE resolveConflicts(l, sq)

\* The timer of startPeriodicSync fires, or Manual Sync is clicked: the call
\* runs up to its await.
syncQuotesStart ==
    /\ pc = "page"
    /\ HasSync(variant)
    /\ inFlight < MaxInFlight
    /\ inFlight' = inFlight + 1
    /\ UNCHANGED <<variant, quotes, storage, selectedCategory, last, accepted,
                   nAdded, mergeVars>>

\* A fetch settles and its syncQuotes call runs from the await to the end.
syncQuotesResume(resp) ==
    /\ pc = "page"
    /\ inFlight > 0
    /\ inFlight' = inFlight - 1
    /\ LET l == parseOrEmpty(storage)
           raises == Throws(l) \/ Throws(resp.quotes)
       IN  /\ last' = [NoOp EXCEPT !.op = "syncQuotes", !.ok = resp.ok,
                          !.done = ~raises, !.server = resp.quotes,
                          !.repeat = /\ last.op = "syncQuotes"
                                     /\ last.done
                                     /\ last.server = resp.quotes]
           /\ IF raises
              THEN UNCHANGED <<quotes, storage>>
              ELSE /\ storage' = stringify(resolveConflictsOf(variant, l, resp.quotes))
                   /\ quotes' = resolveConflictsOf(variant, l, resp.quotes)
    /\ UNCHANGED <<variant, selectedCategory, accepted, nAdded, mergeVars>>

SyncQuotesResume == \E resp \in Responses(variant) : syncQuotesResume(resp)

\* ------------------------------------------------------ importFromJsonFile
\* q.text + "||" + q.category
pairKey(q) == q.text \o <<124, 124>> \o q.category

RECURSIVE pushNew(_, _, _)
\* validated.forEach: push the records whose key is not in existing.
pushNew(qs, existing, validated) ==
    IF validated = << >> THEN qs
    ELSE IF pairKey(Head(validated)) \in existing
         THEN pushNew(qs, existing, Tail(validated))
         ELSE pushNew(Append(qs, Quote(Head(validated).text, Head(validated).category)),
                      existing \cup {pairKey(Head(validated))}, Tail(validated))

\* The quotes array after the file was read, in part_001 and script.js.
imported(qs, file) ==
    IF file.kind # "array" \/ SelectSeq(parse(file), IsValid) = << >>
    THEN qs
    ELSE pushNew(qs, {pairKey(qs[i]) : i \in 1..Len(qs)},
                 SelectSeq(parse(file), IsValid))

importSavesAnyArray(file) == file.kind = "array"

\* Whether the handler reaches saveQuotes.
importSaves(file) ==
    file.kind = "array" /\ SelectSeq(parse(file), IsValid) # << >>

\* part_000: quotes.push(...JSON.parse(text)) with no check; it raises, and
\* changes nothing, when the text is not the JSON of an array.
imported000(qs, file) == IF file.kind = "array" THEN qs \o parse(file) ELSE qs

importFromJsonFile(file) ==
    /\ pc = "page"
    /\ LET qs == IF variant = "part_000" THEN imported000(quotes, file)
                 ELSE imported(quotes, file)
           saves == IF variant = "part_000" THEN file.kind = "array"
                    ELSE importSaves(file)
       IN  /\ nAdded + (Len(qs) - Len(quotes)) <= MaxAdded
           /\ quotes' = qs
           /\ storage' = IF saves THEN stringify(qs) ELSE storage
           /\ nAdded' = nAdded + (Len(qs) - Len(quotes))
           /\ last' = [NoOp EXCEPT !.op = "importFromJsonFile", !.ok = saves,
                          !.done = file.kind = "array" \/ variant # "part_000"]
    /\ UNCHANGED <<variant, selectedCategory, inFlight, accepted, mergeVars>>

ImportFromJsonFile == \E file \in Files : importFromJsonFile(file)

\* ---------------------------------------------------- Clear Stored Quotes
\* The confirmed click: removeItem, then loadQuotes.  part_000 has no such
\* button.
clearStoredQuotes ==
    /\ pc = "page"
    /\ variant \in {"part_001", "script"}
    /\ quotes' = loadedQuotes(variant, AbsentItem)
    /\ storage' = loadedStorage(variant, AbsentItem)
    /\ accepted' = {}
    /\ last' = [NoOp EXCEPT !.op = "clearStoredQuotes", !.done = TRUE]
    /\ UNCHANGED <<variant, selectedCategory, inFlight, nAdded, mergeVars>>

NextApp ==
    \/ AddQuote
    \/ FilterQuote
    \/ syncQuotesStart
    \/ SyncQuotesResume
    \/ ImportFromJsonFile
    \/ clearStoredQuotes

SpecApp == InitApp /\ [][NextApp]_vars

\* ------------------------------------------------------------- vocabulary
\* The key of a quote: its lower-cased text.
Key(q) == toLowerCase(q.text)

Keys(qs) == {Key(qs[i]) : i \in 1..Len(qs)}

\* The positions of qs that hold key k.
At(qs, k) == {i \in 1..Len(qs) : Key(qs[i]) = k}

\* The last record of qs with key k.
LastOf(qs, k) == qs[CHOOSE i \in At(qs, k) : \A j \in At(qs, k) : j <= i]

RECURSIVE FirstKeys(_, _)
\* The keys of qs that are not in seen, in the order of first occurrence.
FirstKeys(qs, seen) ==
    IF qs = << >> THEN << >>
    ELSE IF Key(Head(qs)) \in seen THEN FirstKeys(Tail(qs), seen)
         ELSE <<Key(Head(qs))>> \o FirstKeys(Tail(qs), seen \cup {Key(Head(qs))})

\* The record that wins key k: the last server record, else the last local one.
Winner(k) ==
    IF k \in Keys(serverQuotes) THEN LastOf(serverQuotes, k) ELSE LastOf(localQuotes, k)

Done == pc \in {"merged", "again", "swapped"}

\* ------------------------------------------------------------------ claims

\* C1: in the Map-based resolveConflicts every key that occurs in the server
\* list occurs in exactly one output record, and that record is the last
\* server record with that key (its casing and its category), whether or not
\* the local list holds the key too.
C1_RemoteKeyOnceWithLastRemote ==
    Done => \A k \in Keys(serverQuotes) :
                /\ Cardinality(At(merged, k)) = 1
                /\ \A i \in At(merged, k) : merged[i] = LastOf(serverQuotes, k)

\* A key held by the local list and twice, in different records, by the
\* server list, has been merged.
C1_Witness ==
    /\ Done
    /\ \E k \in Keys(localQuotes) \cap Keys(serverQuotes) :
          /\ Cardinality(At(serverQuotes, k)) = 2
          /\ serverQuotes[1] # serverQuotes[2]
          /\ LastOf(localQuotes, k) # LastOf(serverQuotes, k)
          /\ \E i \in At(merged, k) : merged[i] = serverQuotes[2]

\* C2: in the Set/object-based resolveConflicts, whenever a local and a
\* server quote have the same key, the output record of that key is the
\* server's record, not the local one.
C2_ServerOverwritesDuplicates ==
    Done => \A i \in 1..Len(mergedSet) :
                Key(mergedSet[i]) \in Keys(localQuotes) \cap Keys(serverQuotes)
                    => \E j \in At(serverQuotes, Key(mergedSet[i])) :
                           mergedSet[i] = serverQuotes[j]

C5_EmptyRemoteLeavesLocal ==
    (Done /\ serverQuotes = << >>) =>
        (merged = localQuotes /\ mergedSet = localQuotes)

C7_MapOrder ==
    Done => LET order == FirstKeys(localQuotes, {})
                            \o FirstKeys(serverQuotes, Keys(localQuotes))
            IN  merged = [i \in 1..Len(order) |-> Winner(order[i])]

\* A superseded local record was replaced in place, ahead of a later local
\* key, and a key new from the server was appended.
C7_Witness ==
    /\ Done
    /\ Len(localQuotes) = 2
    /\ Len(merged) = 3
    /\ Key(merged[1]) = Key(localQuotes[1])
    /\ Key(merged[1]) \in Keys(serverQuotes)
    /\ merged[1] # localQuotes[1]
    /\ merged[2] = localQuotes[2]
    /\ Key(merged[3]) \notin Keys(localQuotes)
    /\ serverQuotes[1] = merged[3]

\* C8: merging the output again with an empty list returns the output: same
\* records, same order, in both variants.
C8_Idempotent ==
    pc = "again" => (again = merged /\ againSet = mergedSet)

\* An output of three records, one of them a server record that replaced a
\* local one, has been merged again.
C8_Witness ==
    /\ pc = "again"
    /\ Len(merged) = 3
    /\ Len(againSet) = 3
    /\ \E i \in 1..Len(localQuotes) :
          /\ Key(localQuotes[i]) \in Keys(serverQuotes)
          /\ localQuotes[i] # Winner(Key(localQuotes[i]))

\* C9: resolveConflicts(a, b) and resolveConflicts(b, a) have the same set
\* of keys and the same number of records, in both variants.
C9_CommutativeInKeys ==
    pc = "swapped" =>
        /\ Keys(swapped) = Keys(merged)
        /\ Len(swapped) = Len(merged)
        /\ Keys(swappedSet) = Keys(mergedSet)
        /\ Len(swappedSet) = Len(mergedSet)

\* The two orders of the arguments gave the same keys and different records.
C9_Witness ==
    /\ pc = "swapped"
    /\ Keys(localQuotes) \cap Keys(serverQuotes) # {}
    /\ Keys(localQuotes) # Keys(serverQuotes)
    /\ {swapped[i] : i \in 1..Len(swapped)} # {merged[i] : i \in 1..Len(merged)}
    /\ {swappedSet[i] : i \in 1..Len(swappedSet)}
          # {mergedSet[i] : i \in 1..Len(mergedSet)}

\* C10: resolveConflicts treats a record whose text is the empty string or
\* is not a string as absent: the merge does not raise and no such record is
\* in the output.
C10_MalformedFilteredOut ==
    pc # "input" =>
        /\ ~threw
        /\ \A i \in 1..Len(merged) : merged[i].text \notin {EmptyText, NonString}
        /\ \A i \in 1..Len(mergedSet) : mergedSet[i].text \notin {EmptyText, NonString}

\* ------------------------------------------------------ vocabulary, page
\* The array persisted under STORAGE_KEY.
Persisted == parse(storage)

\* s without its leading and its trailing white space.
Trimmed(s) ==
    LET ink == {i \in 1..Len(s) : s[i] \notin WhiteSpace}
    IN  IF ink = {} THEN << >>
        ELSE SubSeq(s, CHOOSE i \in ink : \A j \in ink : i <= j,
                       CHOOSE i \in ink : \A j \in ink : j <= i)

\* The validated records of a file.
Validated(file) ==
    IF file.kind = "array" THEN SelectSeq(parse(file), IsValid) ELSE << >>

RECURSIVE WithNewPairs(_, _)
\* qs followed by the records of vs whose (text, category) pair is neither
\* in qs nor earlier in vs.
WithNewPairs(qs, vs) ==
    IF vs = << >> THEN qs
    ELSE IF \E i \in 1..Len(qs) : /\ qs[i].text = Head(vs).text
                                  /\ qs[i].category = Head(vs).category
         THEN WithNewPairs(qs, Tail(vs))
         ELSE WithNewPairs(Append(qs, Quote(Head(vs).text, Head(vs).category)),
                           Tail(vs))

\* C11: when a syncQuotes call completes, the array persisted under
\* STORAGE_KEY is resolveConflicts(L, S), L the array persisted when the
\* fetch settled and S the fetched quotes; the quotes array is that same
\* array; the item under CATEGORY_KEY is not written.
C11_SyncPersistsMerge ==
    [][\A resp \in Responses(variant) :
          (syncQuotesResume(resp) /\ last'.done) =>
              /\ storage.kind = "array"
              /\ storage'.kind = "array"
              /\ parse(storage') =
                    (IF variant = "part_000"
                     THEN resolveConflictsSet(parse(storage), resp.quotes)
                     ELSE resolveConflicts(parse(storage), resp.quotes))
              /\ quotes' = parse(storage')
              /\ selectedCategory' = selectedCategory]_vars

\* A sync completed with fetched quotes next to local ones, after a category
\* had been stored.
C11_Witness ==
    /\ last.op = "syncQuotes"
    /\ last.done
    /\ last.ok
    /\ last.server # << >>
    /\ selectedCategory = CatAll
    /\ accepted # {}
    /\ \E i \in 1..Len(quotes) : quotes[i].category = CatServer
    /\ \E i \in 1..Len(quotes) : quotes[i].category = CatX
    /\ quotes = Persisted

\* C12: once no syncQuotes call is in flight, the persisted array holds a
\* record with the key of every quote addQuote accepted (since the stored
\* quotes were last cleared), whatever the interleaving was.
C12_NoAddedQuoteLost ==
    (pc = "page" /\ HasSync(variant) /\ inFlight = 0) =>
        /\ storage.kind = "array"
        /\ accepted \subseteq Keys(Persisted)

\* Two quotes were added, the syncs have completed, and a fetched quote took
\* the place of an added one.
C12_Witness ==
    /\ pc = "page"
    /\ HasSync(variant)
    /\ inFlight = 0
    /\ Cardinality(accepted) = 2
    /\ last.op = "syncQuotes"
    /\ last.done
    /\ \E i \in 1..Len(Persisted) :
          /\ Persisted[i] = Quote(TextLowerA, CatServer)
          /\ Key(Persisted[i]) \in accepted

\* C13: in part_001, when fetchQuotesFromServer fails and returns [],
\* syncQuotes leaves the persisted array and the quotes array equal to the
\* array that was persisted before.
C13_FailedFetchChangesNothing ==
    [][\A resp \in Responses(variant) :
          (/\ syncQuotesResume(resp)
           /\ variant = "part_001"
           /\ ~resp.ok
           /\ last'.done) =>
              /\ storage' = storage
              /\ quotes' = parse(storage)]_vars

\* C14: in part_001 the array persisted under STORAGE_KEY is the quotes
\* array whenever no handler is running.
C14_PersistedEqualsQuotes ==
    (pc = "page" /\ variant = "part_001") =>
        /\ storage.kind = "array"
        /\ Persisted = quotes

\* part_001 after additions and a completed sync that merged fetched quotes.
C14_Witness ==
    /\ variant = "part_001"
    /\ nAdded >= 2
    /\ last.op = "syncQuotes"
    /\ last.done
    /\ last.server # << >>
    /\ Len(quotes) >= 4
    /\ Persisted = quotes

\* C15: in part_001 and script.js importFromJsonFile, given an array with a
\* valid record, appends exactly the validated records whose (text,
\* category) pair is neither in quotes nor earlier in the file, in file
\* order, and leaves the records before them as they were.
C15_ImportAppendsNewPairs ==
    [][\A file \in Files :
          (/\ importFromJsonFile(file)
           /\ variant # "part_000"
           /\ Validated(file) # << >>) =>
              quotes' = WithNewPairs(quotes, Validated(file))]_vars

\* C16: in part_001 and script.js importFromJsonFile leaves the quotes array
\* and the persisted item as they were when the file is not JSON, is not an
\* array, or holds no record with string text and string category.
C16_BadImportChangesNothing ==
    [][\A file \in Files :
          (/\ importFromJsonFile(file)
           /\ variant # "part_000"
           /\ Validated(file) = << >>) =>
              (quotes' = quotes /\ storage' = storage)]_vars

\* An import was refused while the quotes array and the stored item differ.
C16_Witness ==
    /\ variant = "script"
    /\ last.op = "importFromJsonFile"
    /\ ~last.ok
    /\ storage.kind # "array" \/ Persisted # quotes

\* C17: addQuote changes nothing when the trimmed text or the trimmed
\* category is empty; otherwise it appends the one record {trimmed text,
\* trimmed category}, keeps the earlier records, and persists the new array.
C17_AddQuoteAppendsOne ==
    [][\A in \in Typed :
          addQuote(in[1], in[2]) =>
              IF Trimmed(in[1]) = << >> \/ Trimmed(in[2]) = << >>
              THEN quotes' = quotes /\ storage' = storage
              ELSE /\ quotes' = quotes \o <<Quote(Trimmed(in[1]), Trimmed(in[2]))>>
                   /\ storage'.kind = "array"
                   /\ parse(storage') = quotes']_vars

\* " A" and "X " were typed and the record A/X is the last of the array.
C17_Witness ==
    /\ last.op = "addQuote"
    /\ last.ok
    /\ Len(quotes) >= 2
    /\ quotes[Len(quotes)] = Quote(TextA, CatX)
    /\ Persisted = quotes

\* C18: a syncQuotes call that completes right after another one, with the
\* same server response and no handler in between, leaves the persisted
\* item as the first one left it.
C18_SecondSyncIsFixedPoint ==
    [][\A resp \in Responses(variant) :
          (/\ syncQuotesResume(resp)
           /\ last.op = "syncQuotes"
           /\ last.done
           /\ last.server = resp.quotes
           /\ last'.done) =>
              storage' = storage]_vars

\* The same two fetched quotes were merged twice in a row into an array that
\* holds added quotes.
C18_Witness ==
    /\ last.op = "syncQuotes"
    /\ last.done
    /\ last.repeat
    /\ Len(last.server) = 2
    /\ accepted # {}
    /\ Len(quotes) >= 4

====
